---- MODULE Spec2Model ----
(***************************************************************************)
(* A model of mcp-rector: the rule catalog cache (src/models/cache.ts),    *)
(* the markdown parser and rule-set deriver (src/services/rule-parser.ts), *)
(* the query engine (src/services/rule-filter.ts) and the three tool       *)
(* handlers (src/tools/*.ts).                                               *)
(*                                                                         *)
(* Text is a sequence of one-character strings, so that trimming, case     *)
(* folding, splitting and substring search are computed, not assumed.      *)
(*                                                                         *)
(* Scheduling.  JavaScript runs one turn at a time.  An action of the      *)
(* model is one turn: a call made by a client, clear(), or the completion  *)
(* of the fetch together with the continuations of loadData and of the     *)
(* initiating ensureLoaded, which are the first reactions queued on the    *)
(* settled promises.  A client resumes after further promise hops, so the  *)
(* continuation of a tool handler after an await is a turn of its own.     *)
(* The dynamic imports at the top of loadData resolve without touching     *)
(* the cache and are folded into the turn that starts the load.            *)
(* Timestamps (lastFetched, timestamp, lastUpdated) are left out.          *)
(***************************************************************************)
EXTENDS Integers, Sequences, FiniteSets, TLC

(***************************************************************************)
(* Text primitives: the String.prototype methods the sources use.          *)
(***************************************************************************)
UpperLetters == <<"A","B","C","D","E","F","G","H","I","J","K","L","M",
                  "N","O","P","Q","R","S","T","U","V","W","X","Y","Z">>

LowerLetters == <<"a","b","c","d","e","f","g","h","i","j","k","l","m",
                  "n","o","p","q","r","s","t","u","v","w","x","y","z">>

Digits == <<"0","1","2","3","4","5","6","7","8","9">>

Range(s) == {s[i] : i \in DOMAIN s}

UpperSet == Range(UpperLetters)

LowerSet == Range(LowerLetters)

DigitSet == Range(Digits)

IsUpper(c) == c \in UpperSet

IsLower(c) == c \in LowerSet

IsDigit(c) == c \in DigitSet

\* the character U+0060, which a TLA+ string cannot hold
Backtick == "U+0060"

\* \s of a JavaScript regular expression, over the characters the model uses
IsSpace(c) == c \in {" ", "\n", "\t"}

LowerOf ==
  [c \in UpperSet |->
     LowerLetters[CHOOSE i \in DOMAIN UpperLetters : UpperLetters[i] = c]]

LowerChar(c) == IF IsUpper(c) THEN LowerOf[c] ELSE c

\* String.prototype.toLowerCase
toLowerCase(s) == [i \in DOMAIN s |-> LowerChar(s[i])]

\* s.substring(from - 1): the text from position from (1-based) on
DropFirst(s, n) == IF n >= Len(s) THEN <<>> ELSE SubSeq(s, n + 1, Len(s))

\* String.prototype.startsWith, and its form with a position
StartsWithAt(s, p, i) ==
  /\ i >= 1
  /\ i + Len(p) - 1 <= Len(s)
  /\ \A k \in 1..Len(p) : s[i + k - 1] = p[k]

startsWith(s, p) == StartsWithAt(s, p, 1)

\* String.prototype.includes
includes(s, p) == \E i \in 1..(Len(s) + 1) : StartsWithAt(s, p, i)

\* String.prototype.trim
trim(s) ==
  LET solid == {i \in DOMAIN s : ~IsSpace(s[i])}
  IN  IF solid = {} THEN <<>>
      ELSE SubSeq(s, CHOOSE i \in solid : \A j \in solid : i <= j,
                     CHOOSE i \in solid : \A j \in solid : j <= i)

\* the elements of a finite set of numbers, in increasing order
Ascending(S) ==
  [k \in 1..Cardinality(S) |->
     CHOOSE x \in S : Cardinality({y \in S : y < x}) = k - 1]

\* the pieces of s left when the stretches of the given width that start at
\* the positions in starts are cut out (the stretches do not overlap)
CutAt(s, starts, width) ==
  LET ps == Ascending(starts)
      n  == Len(ps)
  IN  [k \in 1..(n + 1) |->
         LET from == IF k = 1 THEN 1 ELSE ps[k - 1] + width
             to   == IF k = n + 1 THEN Len(s) ELSE ps[k] - 1
         IN  IF from > to THEN <<>> ELSE SubSeq(s, from, to)]

\* String.prototype.split with a literal separator; the separators the
\* sources use begin with a line break and hold no other, so that no two
\* occurrences overlap
split(s, sep) ==
  CutAt(s, {i \in DOMAIN s : StartsWithAt(s, sep, i)}, Len(sep))

NonEmpty(piece) == piece # <<>>

\* String.prototype.split(/\s+/): the pieces between maximal runs of
\* whitespace; a run at either end leaves an empty piece there
splitSpaces(s) ==
  LET words == SelectSeq(CutAt(s, {i \in DOMAIN s : IsSpace(s[i])}, 1), NonEmpty)
      lead  == IF s = <<>> \/ IsSpace(s[1]) THEN << <<>> >> ELSE <<>>
      trail == IF s # <<>> /\ IsSpace(s[Len(s)]) THEN << <<>> >> ELSE <<>>
  IN  lead \o words \o trail

\* Array.prototype.join
RECURSIVE join(_, _)
join(xs, sep) ==
  IF xs = <<>> THEN <<>>
  ELSE IF Len(xs) = 1 THEN xs[1]
       ELSE xs[1] \o sep \o join(Tail(xs), sep)

\* [...new Set(xs)]: the first occurrence of each element, in order
RECURSIVE Dedupe(_, _)
Dedupe(xs, seen) ==
  IF xs = <<>> THEN <<>>
  ELSE IF Head(xs) \in seen
       THEN Dedupe(Tail(xs), seen)
       ELSE <<Head(xs)>> \o Dedupe(Tail(xs), seen \cup {Head(xs)})

\* replace(/([a-z])([A-Z])/g, '$1' + sep + '$2')
SplitCamel(s, sep) ==
  join(CutAt(s, {i \in DOMAIN s : i > 1 /\ IsLower(s[i - 1]) /\ IsUpper(s[i])}, 0),
       sep)

\* replace(/[^a-z0-9\s]/g, ' ')
StripNonAlnum(s) ==
  [i \in DOMAIN s |->
     IF IsLower(s[i]) \/ IsDigit(s[i]) \/ IsSpace(s[i]) THEN s[i] ELSE " "]

(***************************************************************************)
(* Optional values: undefined / null is <<>>, a present value v is <<v>>.  *)
(***************************************************************************)
None == <<>>

Some(v) == <<v>>

(***************************************************************************)
(* src/services/rule-parser.ts                                             *)
(***************************************************************************)
commonWords ==
  { <<"t","h","i","s">>, <<"t","h","a","t">>, <<"w","i","t","h">>,
    <<"f","r","o","m">>, <<"h","a","v","e">>, <<"w","i","l","l">>,
    <<"b","e","e","n">>, <<"w","e","r","e">>, <<"r","e","c","t","o","r">>,
    <<"r","u","l","e">>, <<"y","o","u","r">>, <<"c","o","d","e">> }

LongerThan2(word) == Len(word) > 2

LongerThan3(word) == Len(word) > 3

NotCommon(word) == word \notin commonWords

\* Array.prototype.slice(0, n)
FirstN(xs, n) == IF Len(xs) <= n THEN xs ELSE SubSeq(xs, 1, n)

extractSearchTags(name, description) ==
  LET nameWords ==
        SelectSeq(splitSpaces(toLowerCase(SplitCamel(name, <<" ">>))), LongerThan2)
      descWords ==
        FirstN(SelectSeq(SelectSeq(splitSpaces(StripNonAlnum(toLowerCase(description))),
                             LongerThan3),
                      NotCommon),
               10)
  IN  Dedupe(nameWords \o descWords, {})

\* a validation that lets every candidate through
acceptEveryRule(raw) ==
  Some([ id           |-> toLowerCase(SplitCamel(raw.name, <<"-">>)),
         name         |-> trim(raw.name),
         description  |-> trim(raw.description),
         ruleSet      |-> trim(raw.category),
         classPath    |-> IF raw.classPath = None THEN None
                          ELSE Some(trim(raw.classPath[1])),
         status       |-> "stable",
         configurable |-> raw.configurable,
         tags         |-> extractSearchTags(raw.name, raw.description) ])

\* raw is [name, description, category, classPath, configurable]; the three
\* texts are always present when parseRectorMarkdown calls it
validateRule(raw) ==
  IF trim(raw.name) = <<>> \/ trim(raw.description) = <<>>
     \/ trim(raw.category) = <<>>
  THEN None
  ELSE Some([ id           |-> toLowerCase(SplitCamel(raw.name, <<"-">>)),
              name         |-> trim(raw.name),
              description  |-> trim(raw.description),
              ruleSet      |-> trim(raw.category),
              classPath    |-> IF raw.classPath = None THEN None
                               ELSE Some(trim(raw.classPath[1])),
              status       |-> "stable",
              configurable |-> raw.configurable,
              tags         |-> extractSearchTags(raw.name, raw.description) ])

\* line.match(/\[`([^`]+)`\]/): the first "[`", one or more characters other
\* than a backtick, "`]"; the result is the captured group, or None
UntilBacktick(s) ==
  LET ticks == {i \in DOMAIN s : s[i] = Backtick}
  IN  IF ticks = {} THEN s
      ELSE SubSeq(s, 1, (CHOOSE i \in ticks : \A j \in ticks : i <= j) - 1)

CodeSpanAt(line, i) ==
  LET inner == UntilBacktick(DropFirst(line, i + 1))
  IN  IF /\ StartsWithAt(line, <<"[",Backtick>>, i)
         /\ inner # <<>>
         /\ StartsWithAt(line, <<Backtick,"]">>, i + 2 + Len(inner))
      THEN Some(inner)
      ELSE None

matchCodeSpan(line) ==
  LET hits == {i \in 1..Len(line) : CodeSpanAt(line, i) # None}
  IN  IF hits = {} THEN None
      ELSE CodeSpanAt(line, CHOOSE i \in hits : \A j \in hits : i <= j)

\* a loop body that keeps the class path it has once it has one
ScanLineFirstClass(acc, rawLine) ==
  LET line == trim(rawLine)
      m == matchCodeSpan(line)
  IN  [ description  |->
          IF /\ acc.description = <<>>
             /\ line # <<>>
             /\ ~startsWith(line, <<":">>)
             /\ ~startsWith(line, <<"-">>)
             /\ ~startsWith(line, <<Backtick,Backtick,Backtick>>)
          THEN line
          ELSE acc.description,
        configurable |->
          acc.configurable \/ includes(line, <<":","w","r","e","n","c","h",":">>),
        classPath    |->
          IF /\ acc.classPath = None
             /\ startsWith(line, <<"-"," ","c","l","a","s","s",":">>)
             /\ m # None
          THEN m
          ELSE acc.classPath ]

\* the body of the loop over ruleLines[1..], acc is
\* [description, classPath, configurable]
ScanLine(acc, rawLine) ==
  LET line == trim(rawLine)
      m == matchCodeSpan(line)
  IN  [ description  |->
          IF /\ acc.description = <<>>
             /\ line # <<>>
             /\ ~startsWith(line, <<":">>)
             /\ ~startsWith(line, <<"-">>)
             /\ ~startsWith(line, <<Backtick,Backtick,Backtick>>)
          THEN line
          ELSE acc.description,
        configurable |->
          acc.configurable \/ includes(line, <<":","w","r","e","n","c","h",":">>),
        classPath    |->
          IF startsWith(line, <<"-"," ","c","l","a","s","s",":">>) /\ m # None
          THEN m
          ELSE acc.classPath ]

\* a scan that stops at its first line
stopsAtOnce(rawLine) == TRUE

StopsScan(rawLine) ==
  \/ startsWith(trim(rawLine), <<Backtick,Backtick,Backtick>>)
  \/ startsWith(trim(rawLine), <<"#","#">>)

RECURSIVE ScanLines(_, _)
ScanLines(acc, ruleLines) ==
  IF ruleLines = <<>> THEN acc
  ELSE IF StopsScan(Head(ruleLines))
       THEN ScanLine(acc, Head(ruleLines))
       ELSE ScanLines(ScanLine(acc, Head(ruleLines)), Tail(ruleLines))

ParseRuleText(ruleText, category) ==
  LET ruleLines == split(ruleText, <<"\n">>)
      scanned   == ScanLines([description |-> <<>>, classPath |-> None,
                              configurable |-> FALSE],
                             Tail(ruleLines))
  IN  validateRule([ name         |-> trim(ruleLines[1]),
                     description  |-> scanned.description,
                     category     |-> category,
                     classPath    |-> scanned.classPath,
                     configurable |-> scanned.configurable ])

RECURSIVE ParseRuleTexts(_, _)
ParseRuleTexts(ruleTexts, category) ==
  IF ruleTexts = <<>> THEN <<>>
  ELSE ParseRuleText(Head(ruleTexts), category)
         \o ParseRuleTexts(Tail(ruleTexts), category)

ParseSection(section) ==
  LET category == trim(split(section, <<"\n">>)[1])
  IN  IF category = <<"C","a","t","e","g","o","r","i","e","s">>
      THEN <<>>
      ELSE ParseRuleTexts(Tail(split(section, <<"\n","#","#","#"," ">>)),
                          category)

RECURSIVE ParseSections(_)
ParseSections(sections) ==
  IF sections = <<>> THEN <<>>
  ELSE ParseSection(Head(sections)) \o ParseSections(Tail(sections))

\* a parser that gives up on a text without a category section: what it
\* hands back is no Rule
failsWithoutSections(markdown) ==
  LET sections == Tail(split(markdown, <<"\n","#","#"," ">>))
  IN  IF sections = <<>> THEN << [error |-> "no sections"] >>
      ELSE ParseSections(sections)

parseRectorMarkdown(markdown) ==
  ParseSections(Tail(split(markdown, <<"\n","#","#"," ">>)))

AllDigits(s) == \A i \in DOMAIN s : IsDigit(s[i])

formatDisplayName(name) ==
  IF /\ startsWith(name, <<"P","h","p">>)
     /\ Len(name) > 3
     /\ AllDigits(DropFirst(name, 3))
  THEN LET version == DropFirst(name, 3)
           major   == version[1]
           minor   == IF Len(version) >= 2 THEN version[2] ELSE "0"
       IN  <<"P","H","P"," ", major, ".", minor>>
  ELSE trim(SplitCamel(name, <<" ">>))

\* String.prototype.localeCompare over the characters the model uses: the
\* root collation puts white space and punctuation before digits before
\* letters, compares letters without regard to case first, and breaks a
\* remaining tie by putting the lower-case letter first
PunctuationOrder == <<"\t", "\n", " ", "_", "-", ",", ";", ":", "!", "?",
                      ".", "'", "[", "]", Backtick, "/", "#">>

IndexIn(xs, c) == CHOOSE i \in DOMAIN xs : xs[i] = c

CollationRank(c) ==
  IF IsLower(c) THEN 100 + IndexIn(LowerLetters, c)
  ELSE IF IsUpper(c) THEN 100 + IndexIn(UpperLetters, c)
  ELSE IF IsDigit(c) THEN 50 + IndexIn(Digits, c)
  ELSE IF c \in Range(PunctuationOrder) THEN IndexIn(PunctuationOrder, c)
  ELSE 0

RECURSIVE ComparePrimary(_, _)
ComparePrimary(a, b) ==
  IF a = <<>> /\ b = <<>> THEN 0
  ELSE IF a = <<>> THEN -1
  ELSE IF b = <<>> THEN 1
  ELSE IF CollationRank(Head(a)) < CollationRank(Head(b)) THEN -1
  ELSE IF CollationRank(Head(a)) > CollationRank(Head(b)) THEN 1
  ELSE ComparePrimary(Tail(a), Tail(b))

RECURSIVE CompareCase(_, _)
CompareCase(a, b) ==
  IF a = <<>> \/ b = <<>> THEN 0
  ELSE IF Head(a) = Head(b) THEN CompareCase(Tail(a), Tail(b))
  ELSE IF IsLower(Head(a)) THEN -1
  ELSE 1

localeCompare(a, b) ==
  IF ComparePrimary(a, b) # 0 THEN ComparePrimary(a, b) ELSE CompareCase(a, b)

\* Array.prototype.sort with a comparator that is a total preorder; cmp[j, i]
\* is what the comparator returns for xs[j] and xs[i].  The sort is stable
\* (ECMAScript 2019), so an element lands after the elements that compare
\* smaller and after the earlier elements that compare equal
SortedPosition(xs, i, cmp) ==
  1 + Cardinality({j \in DOMAIN xs : cmp[j, i] < 0})
    + Cardinality({j \in DOMAIN xs : j < i /\ cmp[j, i] = 0})

sort(xs, cmp) ==
  [p \in DOMAIN xs |->
     xs[CHOOSE i \in DOMAIN xs : SortedPosition(xs, i, cmp) = p]]

\* the Map of deriveRuleSets, kept as the sequence of its values in
\* insertion order
RECURSIVE CountInto(_, _)
CountInto(setMap, rules) ==
  IF rules = <<>> THEN setMap
  ELSE LET rule == Head(rules)
           has  == \E i \in DOMAIN setMap : setMap[i].name = rule.ruleSet
           withKey ==
             IF has THEN setMap
             ELSE Append(setMap,
                         [ name        |-> rule.ruleSet,
                           displayName |-> formatDisplayName(rule.ruleSet),
                           ruleCount   |-> 0 ])
           bumped ==
             [i \in DOMAIN withKey |->
                IF withKey[i].name = rule.ruleSet
                THEN [withKey[i] EXCEPT !.ruleCount = @ + 1]
                ELSE withKey[i]]
       IN  CountInto(bumped, Tail(rules))

ByDisplayName(a, b) == localeCompare(a.displayName, b.displayName)

\* a derivation without grouping: one RuleSet for every rule
oneSetPerRule(rules) ==
  [i \in DOMAIN rules |->
     [ name        |-> rules[i].ruleSet,
       displayName |-> formatDisplayName(rules[i].ruleSet),
       ruleCount   |-> 1 ]]

deriveRuleSets(rules) ==
  LET values == CountInto(<<>>, rules)
  IN  sort(values,
           [a \in DOMAIN values, b \in DOMAIN values |->
              ByDisplayName(values[a], values[b])])


(***************************************************************************)
(* src/services/rule-filter.ts                                             *)
(***************************************************************************)
\* [_\s]
IsSeparator(c) == c = "_" \/ IsSpace(c)

\* a normalization that leaves the name as it is
unchangedName(name) == name

\* a normalization that turns each dot, too, into a hyphen
dotsToHyphens(name) ==
  LET lower == toLowerCase(name)
  IN  [i \in DOMAIN lower |->
         IF lower[i] = "." \/ IsSeparator(lower[i]) THEN "-" ELSE lower[i]]

\* name.toLowerCase().replace(/[_\s]+/g, '-')
normalizeRuleSetName(name) ==
  LET lower == toLowerCase(name)
      kept  == Ascending({i \in DOMAIN lower :
                            \/ ~IsSeparator(lower[i])
                            \/ i = 1
                            \/ ~IsSeparator(lower[i - 1])})
  IN  [k \in DOMAIN kept |->
         IF IsSeparator(lower[kept[k]]) THEN "-" ELSE lower[kept[k]]]

filterRulesByRuleSet(rules, ruleSetQuery) ==
  LET normalizedQuery == normalizeRuleSetName(ruleSetQuery)
      Matches(rule) == normalizeRuleSetName(rule.ruleSet) = normalizedQuery
  IN  SelectSeq(rules, Matches)

RulesFor == <<"R","u","l","e","s"," ","f","o","r"," ">>

\* the result is None (null) or Some(RuleSet)
extractRuleSetMetadata(rules, ruleSetName) ==
  IF Len(rules) = 0 THEN None
  ELSE LET ruleSet == rules[1].ruleSet
       IN  Some([ name        |-> normalizeRuleSetName(ruleSet),
                  displayName |-> ruleSet,
                  description |-> RulesFor \o ruleSet,
                  ruleCount   |-> Len(rules) ])

AtLeast2(token) == Len(token) >= 2

tokenizeQuery(query) ==
  SelectSeq(splitSpaces(StripNonAlnum(toLowerCase(query))), AtLeast2)

\* a match that is content with one of the tokens
matchesSomeToken(text, tokens) ==
  LET lowerText == toLowerCase(text)
  IN  \E k \in DOMAIN tokens : includes(lowerText, tokens[k])

matchesAllTokens(text, tokens) ==
  LET lowerText == toLowerCase(text)
  IN  \A k \in DOMAIN tokens : includes(lowerText, tokens[k])

\* { ...rule, relevance }
WithRelevance(rule, relevance) ==
  [k \in DOMAIN rule \cup {"relevance"} |->
     IF k = "relevance" THEN relevance ELSE rule[k]]

\* an order that puts the description matches first
descriptionFirstOrder(relevance) ==
  CASE relevance = "name" -> 1
    [] relevance = "description" -> 0
    [] relevance = "tag" -> 2

relevanceOrder(relevance) ==
  CASE relevance = "name" -> 0
    [] relevance = "description" -> 1
    [] relevance = "tag" -> 2

ByRelevance(a, b) == relevanceOrder(a.relevance) - relevanceOrder(b.relevance)

\* rule.tags is undefined when the record has no such field
HasTags(rule) == "tags" \in DOMAIN rule

\* the relevance the loop of searchRules gives a rule: None, or Some(level)
RelevanceOf(rule, tokens) ==
  IF matchesAllTokens(rule.name, tokens) THEN Some("name")
  ELSE IF matchesAllTokens(rule.description, tokens) THEN Some("description")
  ELSE IF HasTags(rule) /\ matchesAllTokens(join(rule.tags, <<" ">>), tokens)
       THEN Some("tag")
       ELSE None

\* the loop that fills results, Relevance(rule) being None or Some(level)
RECURSIVE CollectResults(_, _)
CollectResults(rulesToSearch, relevances) ==
  IF rulesToSearch = <<>> THEN <<>>
  ELSE (IF Head(relevances) = None THEN <<>>
        ELSE <<WithRelevance(Head(rulesToSearch), Head(relevances)[1])>>)
       \o CollectResults(Tail(rulesToSearch), Tail(relevances))

\* a filter that is undefined or the empty string is falsy
RulesToSearch(rules, ruleSetFilter) ==
  IF ruleSetFilter # None /\ ruleSetFilter[1] # <<>>
  THEN filterRulesByRuleSet(rules, ruleSetFilter[1])
  ELSE rules

searchRules(rules, query, ruleSetFilter) ==
  LET rulesToSearch == RulesToSearch(rules, ruleSetFilter)
      tokens == tokenizeQuery(query)
  IN  IF Len(tokens) = 0 THEN <<>>
      ELSE LET results ==
                 CollectResults(rulesToSearch,
                                [i \in DOMAIN rulesToSearch |->
                                   RelevanceOf(rulesToSearch[i], tokens)])
           IN  sort(results,
                    [a \in DOMAIN results, b \in DOMAIN results |->
                       ByRelevance(results[a], results[b])])

(***************************************************************************)
(* The second copy of the query engine (src/unnamed/part_003), which       *)
(* matches the whole query as one substring.                               *)
(***************************************************************************)
matchesQuery(text, query) == includes(toLowerCase(text), toLowerCase(query))

SubstringRelevanceOf(rule, query) ==
  IF matchesQuery(rule.name, query) THEN Some("name")
  ELSE IF matchesQuery(rule.description, query) THEN Some("description")
  ELSE IF HasTags(rule)
          /\ \E k \in DOMAIN rule.tags : matchesQuery(rule.tags[k], query)
       THEN Some("tag")
       ELSE None

searchRulesSubstring(rules, query, ruleSetFilter) ==
  LET rulesToSearch == RulesToSearch(rules, ruleSetFilter)
      results ==
        CollectResults(rulesToSearch,
                       [i \in DOMAIN rulesToSearch |->
                          SubstringRelevanceOf(rulesToSearch[i], query)])
  IN  sort(results,
           [a \in DOMAIN results, b \in DOMAIN results |->
              ByRelevance(results[a], results[b])])


(***************************************************************************)
(* The bounds of the model.                                                *)
(***************************************************************************)
\* client requests issued in one run
MaxReqs == 3

\* tool requests handled in one run
MaxTools == 2

\* invocations of the fetch collaborator in one run
MaxLoads == 2

\* calls of clear() in one run
MaxClears == 1

\* rules in the sequence given to the query engine
MaxRules == 3

\* lines, after the title, of a document put together line by line
MaxLines == 4

\* rule chunks in one category section of a document of the regular form
MaxChunks == 2

\* lines after the description in a chunk with several class lines
MaxClassLines == 3

(***************************************************************************)
(* What the fetch collaborator (src/services/rector-fetcher.ts) can        *)
(* deliver: the text of a document, or an Error with a message.            *)
(***************************************************************************)
\* a document without any category section
DocNoRules ==
  join(<< <<"#"," ","R","u","l","e","s">>,
          <<>>,
          <<"N","o","t","h","i","n","g"," ","y","e","t">>,
          <<>> >>,
       <<"\n">>)

\* two categories with one rule each
DocA ==
  join(<< <<"#"," ","R","u","l","e","s">>,
          <<"#","#"," ","P","h","p","8","0">>,
          <<"#","#","#"," ","U","n","i","o","n","T","y","p","e","s","R","e","c","t","o","r">>,
          <<"A","d","d"," ","u","n","i","o","n"," ","t","y","p","e","s">>,
          <<"-"," ","c","l","a","s","s",":"," ","[",Backtick,"R","\\","U",Backtick,"]">>,
          <<"#","#"," ","C","o","d","e"," ","Q","u","a","l","i","t","y">>,
          <<"#","#","#"," ","D","e","a","d","C","o","d","e","R","e","c","t","o","r">>,
          <<"R","e","m","o","v","e"," ","d","e","a","d"," ","c","o","d","e">>,
          <<>> >>,
       <<"\n">>)

Documents == <<DocNoRules, DocA>>

\* what loadData computes from each document (lines 116-118)
LoadedData ==
  [d \in DOMAIN Documents |->
     LET rules == parseRectorMarkdown(Documents[d])
     IN  [rules |-> rules, ruleSets |-> deriveRuleSets(rules)]]

FetchErrors == {"Request timeout", "Fetch failed: HTTP 500: Internal Server Error"}

\* the failure the fetch shows to the tool handlers
ToolFetchErrors == {"Request timeout"}

\* the arguments the tool handlers are called with
FilterArgs == { <<"C","o","d","e","_","Q","u","a","l","i","t","y">> }

SearchArgs ==
  { [query |-> <<>>, ruleSet |-> None],
    [query |-> <<" "," ">>, ruleSet |-> None],
    [query |-> <<"C","o","d","e","!">>, ruleSet |-> None] }

(***************************************************************************)
(* src/models/cache.ts: the fields of RectorCache, the loads its loadData  *)
(* has started, and the requests of its clients.                           *)
(***************************************************************************)
VARIABLES
  cache,         \* this.cache: None (null) or Some([rules, ruleSets])
  fetchPromise,  \* this.fetchPromise: None (null) or Some(i), the promise of load i
  state,         \* this.state: [rules, ruleSets, status]
  lastError,     \* this.lastError: None (null) or Some([message, hadFallback])
  loads,         \* loads[i]: the promise returned by the i-th call of loadData
  reqs,          \* reqs[r]: the r-th client request and where it stands
  clears,        \* how many times clear() was called
  search,        \* a call of the query engine on its own: its arguments and result
  parse          \* a call of the parser or deriver on its own: its argument and result

vars == <<cache, fetchPromise, state, lastError, loads, reqs, clears, search, parse>>

PendingLoad == [st |-> "pending", data |-> None, error |-> None]

EmptyState == [rules |-> <<>>, ruleSets |-> <<>>, status |-> "empty"]

\* a request not yet issued
IdleReq ==
  [ op      |-> "none",   \* getRules, getRuleSets, list, filter or search
    pc      |-> "idle",   \* idle, awaitRules, awaitRuleSets or done
    args    |-> None,
    field   |-> "none",   \* the member read from the data awaited
    wait    |-> None,     \* Some(i) while the awaited promise is that of load i
    got     |-> None,     \* how the awaited promise settled
    rules   |-> None,     \* the rules a handler holds after its first await
    out     |-> None,     \* the response of a handler
    \* history, not read by the program:
    load    |-> None,     \* the load that served a direct call
    started |-> FALSE,    \* whether the direct call started that load
    epoch   |-> 0,        \* how often clear() had been called before the direct call
    status  |-> "none" ]  \* the status the handler read

Fulfilled(value) == Some([ok |-> TRUE, value |-> value])

Rejected(error) == Some([ok |-> FALSE, error |-> error])

\* no call of the query engine on its own
NoSearch ==
  [rules |-> <<>>, query |-> <<>>, ruleSetFilter |-> None,
   engine |-> "none", results |-> None]

\* the cache after construction (lines 41-49) and no request issued
InitCache ==
  /\ cache = None
  /\ fetchPromise = None
  /\ state = EmptyState
  /\ lastError = None
  /\ loads = <<>>
  /\ reqs = [r \in 1..MaxReqs |-> IdleReq]
  /\ clears = 0

\* no call of the parser or the deriver on their own
NoParse == [markdown |-> None, shape |-> None, rules |-> None, ruleSets |-> None]

Init ==
  /\ InitCache
  /\ search = NoSearch
  /\ parse = NoParse

Outstanding == {i \in DOMAIN loads : loads[i].st = "pending"}

\* requests are issued in the order of their numbers
NextReq(r) ==
  /\ r \in 1..MaxReqs
  /\ reqs[r].pc = "idle"
  /\ \A q \in 1..(r - 1) : reqs[q].pc # "idle"

\* tool requests are numbered like the other requests
NextTool(r) == NextReq(r) /\ r <= MaxTools

\* getStatus(), lines 74-76
getStatus == state.status

\* a cache that never has an error to report
neverAnError == None

\* getLastError(), lines 81-83
getLastError == lastError

\* isLoaded(), lines 170-172
isLoaded == cache # None

\* a cache that looks into this.cache and finds nothing, whatever it holds
CacheNeverHit == FALSE

\* getRules / getRuleSets, line 55 / 65: if (this.cache)
CacheHit == cache # None

\* an ensureLoaded that does not see the promise in flight
NeverInFlight == FALSE

\* ensureLoaded, line 89: if (this.fetchPromise)
InFlight == fetchPromise # None

\* the history fields of a direct call
Stamp(req, load, started) ==
  [req EXCEPT !.load = load, !.started = started, !.epoch = clears]

\* The synchronous part of getRules() (field "rules") or getRuleSets() (field
\* "ruleSets") called by request r, whose record becomes req: a hit returns
\* from this.cache; otherwise ensureLoaded returns the promise in flight or
\* starts loadData, which sets the status and invokes the fetch.
Get(r, field, req, direct) ==
  IF CacheHit
  THEN /\ reqs' = [reqs EXCEPT ![r] =
                     LET a == [req EXCEPT !.field = field, !.wait = None,
                                          !.got = Fulfilled(cache[1][field])]
                     IN  IF direct THEN Stamp(a, None, FALSE) ELSE a]
       /\ UNCHANGED <<cache, fetchPromise, state, lastError, loads>>
  ELSE IF InFlight
  THEN /\ reqs' = [reqs EXCEPT ![r] =
                     LET a == [req EXCEPT !.field = field, !.wait = fetchPromise,
                                          !.got = None]
                     IN  IF direct THEN Stamp(a, fetchPromise, FALSE) ELSE a]
       /\ UNCHANGED <<cache, fetchPromise, state, lastError, loads>>
  ELSE /\ Len(loads) < MaxLoads
       /\ loads' = Append(loads, PendingLoad)
       /\ fetchPromise' = Some(Len(loads) + 1)
       /\ state' = [state EXCEPT !.status = "loading"]
       /\ reqs' = [reqs EXCEPT ![r] =
                     LET a == [req EXCEPT !.field = field,
                                          !.wait = Some(Len(loads) + 1),
                                          !.got = None]
                     IN  IF direct THEN Stamp(a, Some(Len(loads) + 1), TRUE) ELSE a]
       /\ UNCHANGED <<cache, lastError>>

\* a client calls rectorCache.getRules()
CallGetRules(r) ==
  /\ NextReq(r)
  /\ Get(r, "rules", [reqs[r] EXCEPT !.op = "getRules", !.pc = "awaitRules"], TRUE)
  /\ UNCHANGED <<clears, search, parse>>

\* a client calls rectorCache.getRuleSets()
CallGetRuleSets(r) ==
  /\ NextReq(r)
  /\ Get(r, "ruleSets",
         [reqs[r] EXCEPT !.op = "getRuleSets", !.pc = "awaitRuleSets"], TRUE)
  /\ UNCHANGED <<clears, search, parse>>

\* a settlement that reaches the awaiting requests only while the cache
\* still holds the promise of load i
DeliverIfHeld(i, settled) ==
  [r \in DOMAIN reqs |->
     IF reqs[r].wait = Some(i) /\ fetchPromise = Some(i)
     THEN [reqs[r] EXCEPT
             !.wait = None,
             !.got = IF settled[1].ok
                     THEN Fulfilled(settled[1].value[reqs[r].field])
                     ELSE settled]
     ELSE reqs[r]]

\* every request awaiting load i sees its promise settle
Deliver(i, settled) ==
  [r \in DOMAIN reqs |->
     IF reqs[r].wait = Some(i)
     THEN [reqs[r] EXCEPT
             !.wait = None,
             !.got = IF settled[1].ok
                     THEN Fulfilled(settled[1].value[reqs[r].field])
                     ELSE settled]
     ELSE reqs[r]]

\* a loadData that always finds stale data to serve
AlwaysFallback == TRUE

\* a loadData that never finds stale data to serve
NeverFallback == FALSE

\* loadData, line 138
hadFallback == Len(state.rules) > 0

\* The fetch of load i resolves with a document: the try branch of loadData
\* (lines 115-136), then the continuation of the ensureLoaded that started
\* the load (lines 95-98).
FetchResolve(i, d) ==
  /\ i \in Outstanding
  /\ LET data == LoadedData[d]
     IN  /\ state' = [rules |-> data.rules, ruleSets |-> data.ruleSets,
                      status |-> "loaded"]
         /\ lastError' = None
         /\ loads' = [loads EXCEPT ![i] =
                        [st |-> "fulfilled", data |-> Some(data), error |-> None]]
         /\ cache' = Some(data)
         /\ fetchPromise' = None
         /\ reqs' = Deliver(i, Fulfilled(data))
  /\ UNCHANGED <<clears, search, parse>>

\* The fetch of load i fails with message e: the catch branch of loadData
\* (lines 137-164), then the continuation of the ensureLoaded that started
\* the load (lines 95-98).
FetchReject(i, e) ==
  /\ i \in Outstanding
  /\ lastError' = Some([message |-> e, hadFallback |-> hadFallback])
  /\ state' = [state EXCEPT !.status = "error"]
  /\ fetchPromise' = None
  /\ IF hadFallback
     THEN LET data == [rules |-> state.rules, ruleSets |-> state.ruleSets]
          IN  /\ loads' = [loads EXCEPT ![i] =
                             [st |-> "fulfilled", data |-> Some(data),
                              error |-> None]]
              /\ cache' = Some(data)
              /\ reqs' = Deliver(i, Fulfilled(data))
     ELSE /\ loads' = [loads EXCEPT ![i] =
                         [st |-> "rejected", data |-> None, error |-> Some(e)]]
          /\ cache' = cache
          /\ reqs' = Deliver(i, Rejected(e))
  /\ UNCHANGED <<clears, search, parse>>

\* a clear() that drops the snapshot and the promise but leaves the state
ClearCacheOnly ==
  /\ clears < MaxClears
  /\ cache' = None
  /\ fetchPromise' = None
  /\ clears' = clears + 1
  /\ UNCHANGED <<state, lastError, loads, reqs, search, parse>>

\* a clear() that forgets the last error as well
ClearWithLastError ==
  /\ clears < MaxClears
  /\ cache' = None
  /\ fetchPromise' = None
  /\ state' = EmptyState
  /\ lastError' = None
  /\ clears' = clears + 1
  /\ UNCHANGED <<loads, reqs, search, parse>>

\* clear(), lines 177-186
Clear ==
  /\ clears < MaxClears
  /\ cache' = None
  /\ fetchPromise' = None
  /\ state' = EmptyState
  /\ clears' = clears + 1
  /\ UNCHANGED <<lastError, loads, reqs, search, parse>>


(***************************************************************************)
(* src/tools/list-rules.ts, src/tools/filter-rules.ts and                  *)
(* src/tools/search-rules.ts: the three tool handlers.                     *)
(***************************************************************************)
\* filter-rules.ts, lines 54-55, and searchRulesHandler (requirements.md,
\* lines 727-728)
collapseStatus(cacheStatus) ==
  IF cacheStatus = "loaded" THEN "fresh"
  ELSE IF cacheStatus = "error" THEN "error"
  ELSE "stale"

\* list-rules.ts, lines 43 and 49: the status goes into the output as read
listCacheStatus(cacheStatus) == cacheStatus

filterCacheStatus(cacheStatus) == collapseStatus(cacheStatus)

searchCacheStatus(cacheStatus) == collapseStatus(cacheStatus)

\* the catch blocks: the response carries a prefix and the error's message
ErrorResponse(prefix, message) ==
  Some([isError |-> TRUE, text |-> <<prefix, message>>])

OkResponse(output) == Some([isError |-> FALSE, output |-> output])

\* a check of the query that forgets to trim it
isEmptyString(query) == Len(query) = 0

\* searchRulesHandler (requirements.md, line 708): if (query.trim().length === 0)
isBlankQuery(query) == Len(trim(query)) = 0

\* a handler finishes with a response; the cache is not touched
Finish(r, response, status) ==
  /\ reqs' = [reqs EXCEPT ![r] = [@ EXCEPT !.pc = "done", !.out = response,
                                           !.status = status, !.got = None,
                                           !.rules = None, !.field = "none"]]
  /\ UNCHANGED <<cache, fetchPromise, state, lastError, loads>>

\* listRulesHandler up to its first await
StartList(r) ==
  /\ NextTool(r)
  /\ Get(r, "rules", [reqs[r] EXCEPT !.op = "list", !.pc = "awaitRules"], FALSE)
  /\ UNCHANGED <<clears, search, parse>>

\* listRulesHandler resumes: after the rules it asks for the rule sets, after
\* the rule sets it reads the status and answers
ContinueList(r) ==
  /\ reqs[r].op = "list"
  /\ reqs[r].pc \in {"awaitRules", "awaitRuleSets"}
  /\ reqs[r].got # None
  /\ IF ~reqs[r].got[1].ok
     THEN Finish(r, ErrorResponse("Error loading Rector rules: ",
                                  reqs[r].got[1].error), "none")
     ELSE IF reqs[r].pc = "awaitRules"
     THEN Get(r, "ruleSets",
              [reqs[r] EXCEPT !.pc = "awaitRuleSets",
                              !.rules = Some(reqs[r].got[1].value)],
              FALSE)
     ELSE LET rules == reqs[r].rules[1]
          IN  Finish(r, OkResponse([ rules       |-> rules,
                                     totalCount  |-> Len(rules),
                                     ruleSets    |-> reqs[r].got[1].value,
                                     cacheStatus |-> listCacheStatus(state.status) ]),
                     state.status)
  /\ UNCHANGED <<clears, search, parse>>

\* filterRulesHandler up to its await
StartFilter(r, ruleSet) ==
  /\ NextTool(r)
  /\ Get(r, "rules",
         [reqs[r] EXCEPT !.op = "filter", !.pc = "awaitRules",
                         !.args = Some([ruleSet |-> ruleSet])],
         FALSE)
  /\ UNCHANGED <<clears, search, parse>>

\* filterRulesHandler resumes
ContinueFilter(r) ==
  /\ reqs[r].op = "filter"
  /\ reqs[r].pc = "awaitRules"
  /\ reqs[r].got # None
  /\ IF ~reqs[r].got[1].ok
     THEN Finish(r, ErrorResponse("Error filtering Rector rules: ",
                                  reqs[r].got[1].error), "none")
     ELSE LET ruleSet       == reqs[r].args[1].ruleSet
              filteredRules == filterRulesByRuleSet(reqs[r].got[1].value, ruleSet)
          IN  Finish(r, OkResponse([ rules        |-> filteredRules,
                                     matchedCount |-> Len(filteredRules),
                                     ruleSet      |->
                                       extractRuleSetMetadata(filteredRules, ruleSet),
                                     cacheStatus  |-> filterCacheStatus(state.status) ]),
                     state.status)
  /\ UNCHANGED <<clears, search, parse>>

\* searchRulesHandler up to its await, or to its refusal of a blank query
StartSearch(r, args) ==
  /\ NextTool(r)
  /\ LET req == [reqs[r] EXCEPT !.op = "search", !.pc = "awaitRules",
                                !.args = Some(args)]
     IN  IF isBlankQuery(args.query)
         THEN /\ reqs' = [reqs EXCEPT ![r] =
                            [req EXCEPT
                               !.pc = "done",
                               !.out = ErrorResponse("Error: ",
                                         "Query string cannot be empty")]]
              /\ UNCHANGED <<cache, fetchPromise, state, lastError, loads>>
         ELSE Get(r, "rules", req, FALSE)
  /\ UNCHANGED <<clears, search, parse>>

\* searchRulesHandler resumes
ContinueSearch(r) ==
  /\ reqs[r].op = "search"
  /\ reqs[r].pc = "awaitRules"
  /\ reqs[r].got # None
  /\ IF ~reqs[r].got[1].ok
     THEN Finish(r, ErrorResponse("Error searching Rector rules: ",
                                  reqs[r].got[1].error), "none")
     ELSE LET args          == reqs[r].args[1]
              searchResults == searchRules(reqs[r].got[1].value, args.query,
                                           args.ruleSet)
          IN  Finish(r, OkResponse([ rules           |-> searchResults,
                                     matchedCount    |-> Len(searchResults),
                                     query           |-> args.query,
                                     filteredRuleSet |->
                                       IF args.ruleSet # None /\ args.ruleSet[1] # <<>>
                                       THEN args.ruleSet ELSE None,
                                     cacheStatus     |-> searchCacheStatus(state.status) ]),
                     state.status)
  /\ UNCHANGED <<clears, search, parse>>

\* the turns of the cache itself: a fetch settles, or clear() is called
CacheTurn(errors) ==
  \/ \E i \in 1..MaxLoads : \E d \in DOMAIN Documents : FetchResolve(i, d)
  \/ \E i \in 1..MaxLoads : \E e \in errors : FetchReject(i, e)
  \/ Clear

\* The cache and clients that call getRules() and getRuleSets() on it.
Next ==
  \/ \E r \in 1..MaxReqs : CallGetRules(r)
  \/ \E r \in 1..MaxReqs : CallGetRuleSets(r)
  \/ CacheTurn(FetchErrors)

Spec == Init /\ [][Next]_vars

\* the fetch of load i resolves or fails
Settle(i) ==
  \/ \E d \in DOMAIN Documents : FetchResolve(i, d)
  \/ \E e \in FetchErrors : FetchReject(i, e)

\* The same, with every fetch that was invoked resolving or failing in the
\* end: the promise loadData awaits (cache.ts, line 115) settles, as that of
\* fetchRectorMarkdown does once the request is answered or its timeout
\* aborts it (rector-fetcher.ts, lines 14-27).
LiveSpec == Init /\ [][Next]_vars /\ \A i \in 1..MaxLoads : WF_vars(Settle(i))

\* clear() called while no load is in flight
QuietClear == Outstanding = {} /\ Clear

\* The cache and its direct clients when clear() is called only while no
\* load is in flight.
QuietNext ==
  \/ \E r \in 1..MaxReqs : CallGetRules(r)
  \/ \E r \in 1..MaxReqs : CallGetRuleSets(r)
  \/ \E i \in 1..MaxLoads : \E d \in DOMAIN Documents : FetchResolve(i, d)
  \/ \E i \in 1..MaxLoads : \E e \in FetchErrors : FetchReject(i, e)
  \/ QuietClear

QuietSpec == Init /\ [][QuietNext]_vars

\* The cache and the tool handlers, which are its clients in the server.
ToolNext ==
  \/ \E r \in 1..MaxReqs : StartList(r)
  \/ \E r \in 1..MaxReqs : ContinueList(r)
  \/ \E r \in 1..MaxReqs : \E a \in FilterArgs : StartFilter(r, a)
  \/ \E r \in 1..MaxReqs : ContinueFilter(r)
  \/ \E r \in 1..MaxReqs : \E a \in SearchArgs : StartSearch(r, a)
  \/ \E r \in 1..MaxReqs : ContinueSearch(r)
  \/ CacheTurn(ToolFetchErrors)

ToolSpec == Init /\ [][ToolNext]_vars


(***************************************************************************)
(* The query engine called on its own: searchRules of                      *)
(* src/services/rule-filter.ts and its substring variant of                *)
(* src/unnamed/part_003, applied to sequences of rules of the Rule type    *)
(* (tags are optional).                                                    *)
(***************************************************************************)
RuleUnionTypes ==
  [ id          |-> <<"u","n","i","o","n","-","t","y","p","e","s","-","r","e","c","t","o","r">>,
    name        |-> <<"U","n","i","o","n","T","y","p","e","s","R","e","c","t","o","r">>,
    description |-> <<"A","d","d"," ","u","n","i","o","n"," ","t","y","p","e","s">>,
    ruleSet     |-> <<"P","h","p","8","0">>,
    tags        |-> << <<"p","h","p","8","0">> >> ]

RuleDeadCode ==
  [ id          |-> <<"d","e","a","d","-","c","o","d","e","-","r","e","c","t","o","r">>,
    name        |-> <<"D","e","a","d","C","o","d","e","R","e","c","t","o","r">>,
    description |-> <<"R","e","m","o","v","e"," ","d","e","a","d"," ","c","o","d","e">>,
    ruleSet     |-> <<"C","o","d","e"," ","Q","u","a","l","i","t","y">> ]

RuleCleanup ==
  [ id          |-> <<"c","l","e","a","n","u","p","-","r","e","c","t","o","r">>,
    name        |-> <<"C","l","e","a","n","u","p","R","e","c","t","o","r">>,
    description |-> <<"D","r","o","p"," ","d","e","a","d"," ","t","y","p","e","d"," ","c","o","d","e">>,
    ruleSet     |-> <<"C","o","d","e"," ","Q","u","a","l","i","t","y">>,
    tags        |-> << <<"d","e","a","d">> >> ]

RuleDeadStmt ==
  [ id          |-> <<"d","e","a","d","-","s","t","m","t","-","r","e","c","t","o","r">>,
    name        |-> <<"D","e","a","d","S","t","m","t","R","e","c","t","o","r">>,
    description |-> <<"R","e","m","o","v","e","s"," ","c","o","d","e">>,
    ruleSet     |-> <<"P","h","p","8","0">>,
    tags        |-> << <<"d","e","a","d">>, <<"c","o","d","e">>, <<"t","y","p","e">> >> ]

RuleDeadType ==
  [ id          |-> <<"d","e","a","d","-","t","y","p","e","-","r","e","c","t","o","r">>,
    name        |-> <<"D","e","a","d","T","y","p","e","R","e","c","t","o","r">>,
    description |-> <<"U","n","r","e","a","c","h","a","b","l","e"," ","c","o","d","e">>,
    ruleSet     |-> <<"P","h","p","8","0">>,
    tags        |-> << <<"t","y","p","o">> >> ]

RulePool == <<RuleUnionTypes, RuleDeadCode, RuleCleanup, RuleDeadStmt, RuleDeadType>>

\* the sequences of at most MaxRules different rules of the pool
RuleSeqs ==
  UNION { { [i \in 1..k |-> RulePool[f[i]]] :
              f \in {g \in [1..k -> DOMAIN RulePool] :
                       \A i, j \in 1..k : i # j => g[i] # g[j]} } :
          k \in 0..MaxRules }

SearchQueries ==
  { <<"T","y","p","e">>,
    <<"d","e","a","d"," ","c","o","d","e">>,
    <<"a","!">> }

SearchFilters == { None, Some(<<>>), Some(<<"P","H","P","8","0">>) }

SearchInit ==
  /\ InitCache
  /\ \E rules \in RuleSeqs : \E query \in SearchQueries :
       \E ruleSetFilter \in SearchFilters :
         search = [NoSearch EXCEPT !.rules = rules, !.query = query,
                                   !.ruleSetFilter = ruleSetFilter]
  /\ parse = NoParse

\* searchRules(rules, query, ruleSetFilter) of src/services/rule-filter.ts
CallSearchRules ==
  /\ search.engine = "none"
  /\ search' = [search EXCEPT
                  !.engine = "tokens",
                  !.results = Some(searchRules(search.rules, search.query,
                                               search.ruleSetFilter))]
  /\ UNCHANGED <<cache, fetchPromise, state, lastError, loads, reqs, clears, parse>>

\* searchRules(rules, query, ruleSetFilter) of src/unnamed/part_003
CallSearchRulesSubstring ==
  /\ search.engine = "none"
  /\ search' = [search EXCEPT
                  !.engine = "substring",
                  !.results = Some(searchRulesSubstring(search.rules, search.query,
                                                        search.ruleSetFilter))]
  /\ UNCHANGED <<cache, fetchPromise, state, lastError, loads, reqs, clears, parse>>

SearchNext ==
  \/ CallSearchRules
  \/ CallSearchRulesSubstring

SearchSpec == SearchInit /\ [][SearchNext]_vars


(***************************************************************************)
(* filterRulesByRuleSet of src/services/rule-filter.ts called on its own.  *)
(***************************************************************************)
FilteredCodeQuality ==
  [ id          |-> <<"c","o","d","e","q","u","a","l","i","t","y">>,
    name        |-> <<"C","o","d","e","Q","u","a","l","i","t","y","R","e","c","t","o","r">>,
    description |-> <<"T","e","x","t">>,
    ruleSet     |-> <<"C","o","d","e"," ","Q","u","a","l","i","t","y">> ]

FilteredSnake ==
  [ id          |-> <<"s","n","a","k","e">>,
    name        |-> <<"S","n","a","k","e","R","e","c","t","o","r">>,
    description |-> <<"T","e","x","t">>,
    ruleSet     |-> <<"c","o","d","e","_","q","u","a","l","i","t","y">> ]

FilteredHyphen ==
  [ id          |-> <<"h","y","p","h","e","n">>,
    name        |-> <<"H","y","p","h","e","n","R","e","c","t","o","r">>,
    description |-> <<"T","e","x","t">>,
    ruleSet     |-> <<"C","o","d","e","-","Q","u","a","l","i","t","y">> ]

FilteredCode ==
  [ id          |-> <<"c","o","d","e">>,
    name        |-> <<"C","o","d","e","R","e","c","t","o","r">>,
    description |-> <<"T","e","x","t">>,
    ruleSet     |-> <<"C","o","d","e">> ]

FilteredPhp ==
  [ id          |-> <<"p","h","p">>,
    name        |-> <<"P","h","p","R","e","c","t","o","r">>,
    description |-> <<"T","e","x","t">>,
    ruleSet     |-> <<"P","H","P"," ","8",".","0">> ]

FilteredRun ==
  [ id          |-> <<"r","u","n">>,
    name        |-> <<"R","u","n","R","e","c","t","o","r">>,
    description |-> <<"T","e","x","t">>,
    ruleSet     |-> <<"C","O","D","E"," ","_"," ","q","u","a","l","i","t","y">> ]

FilteredLonger ==
  [ id          |-> <<"l","o","n","g","e","r">>,
    name        |-> <<"L","o","n","g","e","r","R","e","c","t","o","r">>,
    description |-> <<"T","e","x","t">>,
    ruleSet     |-> <<"C","o","d","e"," ","Q","u","a","l","i","t","y"," ","E","x","t","r","a">> ]

FilterPool ==
  <<FilteredCodeQuality,
    FilteredSnake,
    FilteredHyphen,
    FilteredCode,
    FilteredPhp,
    FilteredRun,
    FilteredLonger>>

\* the sequences of at most MaxRules different rules of the filter pool
FilterRuleSeqs ==
  UNION { { [i \in 1..k |-> FilterPool[f[i]]] :
              f \in {g \in [1..k -> DOMAIN FilterPool] :
                       \A i, j \in 1..k : i # j => g[i] # g[j]} } :
          k \in 0..MaxRules }

QueryCodeQuality == <<"C","o","d","e"," ","Q","u","a","l","i","t","y">>

QuerySnake == <<"c","o","d","e","_","q","u","a","l","i","t","y">>

QueryHyphen == <<"c","o","d","e","-","q","u","a","l","i","t","y">>

QueryPhpHyphens == <<"p","h","p","-","8","-","0">>

QueryPhpDot == <<"p","h","p","-","8",".","0">>

FilterQueries ==
  { QueryCodeQuality, QuerySnake, QueryHyphen, QueryPhpHyphens, QueryPhpDot,
    <<"C","o","d","e">>,
    <<"c","o","d","e"," ","\t","_","Q","U","A","L","I","T","Y">>,
    <<>> }

FilterInit ==
  /\ InitCache
  /\ \E rules \in FilterRuleSeqs : \E ruleSetQuery \in FilterQueries :
       search = [NoSearch EXCEPT !.rules = rules, !.query = ruleSetQuery]
  /\ parse = NoParse

\* filterRulesByRuleSet(rules, ruleSetQuery)
CallFilterRulesByRuleSet ==
  /\ search.engine = "none"
  /\ search' = [search EXCEPT
                  !.engine = "filter",
                  !.results = Some(filterRulesByRuleSet(search.rules, search.query))]
  /\ UNCHANGED <<cache, fetchPromise, state, lastError, loads, reqs, clears, parse>>

FilterNext == CallFilterRulesByRuleSet

FilterSpec == FilterInit /\ [][FilterNext]_vars


(***************************************************************************)
(* parseRectorMarkdown and deriveRuleSets of src/services/rule-parser.ts   *)
(* (src/unnamed/part_001) called on their own.                             *)
(***************************************************************************)
\* The lines documents are put together from.  Each carries what it is by
\* the markdown it is written in: the heading of a category, the heading of
\* a rule, a line of text, or something else; and the text it holds.
LinePool ==
  << [text |-> <<"#","#"," ","S","e","t"," ","O","n","e">>, kind |-> "category",
      value |-> <<"S","e","t"," ","O","n","e">>],
     [text |-> <<"#","#","#"," ","F","o","o","B","a","r">>, kind |-> "rule",
      value |-> <<"F","o","o","B","a","r">>],
     [text |-> <<"S","o","m","e"," ","t","e","x","t">>, kind |-> "text",
      value |-> <<"S","o","m","e"," ","t","e","x","t">>],
     [text |-> <<"-"," ","c","l","a","s","s",":"," ","[",Backtick,"A","\\","B",Backtick,"]">>, kind |-> "other",
      value |-> <<"A","\\","B">>],
     [text |-> <<"#","#","#"," "," ">>, kind |-> "rule", value |-> <<>>],
     [text |-> <<"#","#"," "," ">>, kind |-> "category", value |-> <<>>] >>

TitleLine == <<"#"," ","R","u","l","e","s">>

\* the documents of a title and at most MaxLines lines of the pool; shape
\* is the sequence of the lines, as the numbers they have in the pool
LineDocs ==
  UNION { { [markdown |-> join(<<TitleLine>> \o [i \in 1..k |-> LinePool[f[i]].text],
                               <<"\n">>),
             shape    |-> [kind |-> "lines", lines |-> f]] :
              f \in [1..k -> DOMAIN LinePool] } :
          k \in 0..MaxLines }

\* the rule chunks and the category headings of the documents of the regular
\* form; a heading is written with blanks around it, name and ruleSet are
\* the heading without them
ChunkPool ==
  << [heading     |-> <<"F","o","o","B","a","r"," ">>,
      name        |-> <<"F","o","o","B","a","r">>,
      description |-> <<"S","o","m","e"," ","t","e","x","t">>,
      marker      |-> <<>>,
      classPath   |-> <<"A","\\","B">>,
      example     |-> <<>>],
     [heading     |-> <<"U","n","i","o","n","T","y","p","e","s","R","u","l","e">>,
      name        |-> <<"U","n","i","o","n","T","y","p","e","s","R","u","l","e">>,
      description |-> <<"A","d","d"," ","u","n","i","o","n"," ","t","y","p","e","s">>,
      marker      |-> <<>>,
      classPath   |-> <<"R","e","c","t","o","r","\\","P","h","p","8","0","\\","U","n","i","o","n","T","y","p","e","s","R","u","l","e">>,
      example     |-> <<>>],
     [heading     |-> <<"F","o","o","-","B","a","r">>,
      name        |-> <<"F","o","o","-","B","a","r">>,
      description |-> <<"O","t","h","e","r"," ","t","e","x","t">>,
      marker      |-> << <<":","w","r","e","n","c","h",":"," ","*","*","c","o","n","f","i","g","u","r","e"," ","i","t","!","*","*">>, <<>> >>,
      classPath   |-> <<"C","\\","D">>,
      example     |-> << <<Backtick,Backtick,Backtick,"d","i","f","f">>,
                         <<"-","o","l","d">>,
                         <<"+","n","e","w">>,
                         <<Backtick,Backtick,Backtick>>, <<>> >>] >>

CategoryPool ==
  << [heading |-> <<" ","C","o","d","i","n","g"," ","S","t","y","l","e">>, ruleSet |-> <<"C","o","d","i","n","g"," ","S","t","y","l","e">>],
     [heading |-> <<"P","H","P"," ","8",".","0">>, ruleSet |-> <<"P","H","P"," ","8",".","0">>] >>

\* the text of a rule chunk: heading, description and class line, each
\* followed by an empty line; the marker of a configurable rule comes before
\* the class line, the example in its fenced block after it
ChunkLines(chunk) ==
  << <<"#","#","#"," ">> \o chunk.heading, <<>>, chunk.description, <<>> >>
    \o chunk.marker
    \o << <<"-"," ","c","l","a","s","s",":"," ","[",Backtick>> \o chunk.classPath
            \o <<Backtick,"]">>,
          <<>> >>
    \o chunk.example

RECURSIVE Flatten(_)
Flatten(seqs) ==
  IF seqs = <<>> THEN <<>> ELSE Head(seqs) \o Flatten(Tail(seqs))

\* the text of a section: sec is [category, chunks], numbers in the pools
SectionLines(sec) ==
  << <<"#","#"," ">> \o CategoryPool[sec.category].heading, <<>> >>
    \o Flatten([c \in DOMAIN sec.chunks |-> ChunkLines(ChunkPool[sec.chunks[c]])])

RegularMarkdown(sections) ==
  join(<< <<>>, TitleLine, <<>> >>
         \o Flatten([k \in DOMAIN sections |-> SectionLines(sections[k])]),
       <<"\n">>)

\* the sequences of at most MaxChunks chunks
ChunkSeqs == UNION { [1..k -> DOMAIN ChunkPool] : k \in 0..MaxChunks }

\* the documents of the regular form: a title, then sections of different
\* categories, each with at most MaxChunks chunks
RegularDocs ==
  UNION { { [markdown |-> RegularMarkdown(sections),
             shape    |-> [kind |-> "regular", sections |-> sections]] :
              sections \in
                { ss \in [1..k -> [category : DOMAIN CategoryPool,
                                   chunks : ChunkSeqs]] :
                    \A i, j \in 1..k : i # j => ss[i].category # ss[j].category } } :
          k \in 0..Len(CategoryPool) }

\* texts that are no document at all
OddTexts ==
  { <<>>,
    <<"\n","#","#"," ">>,
    <<"#","#"," ","S","e","t"," ","O","n","e","\n","#","#","#"," ","F","o","o","B","a","r","\n","S","o","m","e"," ","t","e","x","t">>,
    <<"\n","#","#","#"," ","F","o","o","B","a","r","\n","S","o","m","e"," ","t","e","x","t">>,
    <<"\n","#","#"," ","S","e","t"," ","O","n","e","\n","#","#","#"," ">>,
    <<"\n","\n","#","#"," ","\n","#","#","#"," ","\n","\n">> }

OddDocs ==
  { [markdown |-> text, shape |-> [kind |-> "odd"]] : text \in OddTexts }

\* a rule of the rule set Php8, whose display name is that of Php80
RulePhp8 ==
  [ id          |-> <<"m","a","t","c","h","-","r","e","c","t","o","r">>,
    name        |-> <<"M","a","t","c","h","R","e","c","t","o","r">>,
    description |-> <<"U","s","e"," ","m","a","t","c","h">>,
    ruleSet     |-> <<"P","h","p","8">> ]

\* the sequences of at most MaxRules different rules out of one of Php80,
\* one of Code Quality and one of Php8
DeriveRuleSeqs ==
  LET pool == <<RuleUnionTypes, RuleDeadCode, RulePhp8>>
  IN  UNION { { [i \in 1..k |-> pool[f[i]]] :
                  f \in {g \in [1..k -> DOMAIN pool] :
                           \A i, j \in 1..k : i # j => g[i] # g[j]} } :
              k \in 0..MaxRules }

\* the code spans of the class lines of a chunk with several of them
ClassSpans == << <<"A","\\","B">>, <<"C","\\","D">> >>

\* line k of such a chunk: the class line with span k, or, for 0, the
\* delimiter of a fenced block
ClassLine(k) ==
  IF k = 0 THEN <<Backtick,Backtick,Backtick>>
  ELSE <<"-"," ","c","l","a","s","s",":"," ","[",Backtick>> \o ClassSpans[k]
         \o <<Backtick,"]">>

\* the documents of one chunk whose description is followed by 2 to
\* MaxClassLines lines, each a class line or a fence; shape is the sequence
\* of the lines
ClassDocs ==
  UNION { { [markdown |-> join(<<TitleLine, LinePool[1].text, LinePool[2].text,
                                 LinePool[3].text>>
                                 \o [i \in 1..k |-> ClassLine(f[i])],
                               <<"\n">>),
             shape    |-> [kind |-> "classes", lines |-> f]] :
              f \in [1..k -> 0..Len(ClassSpans)] } :
          k \in 2..MaxClassLines }

ParseInit ==
  /\ InitCache
  /\ search = NoSearch
  /\ \/ \E doc \in LineDocs \cup RegularDocs \cup OddDocs \cup ClassDocs :
          parse = [NoParse EXCEPT !.markdown = Some(doc.markdown),
                                  !.shape = Some(doc.shape)]
     \/ \E rules \in RuleSeqs \cup DeriveRuleSeqs :
          parse = [NoParse EXCEPT !.rules = Some(rules)]

\* parseRectorMarkdown(markdown)
CallParseRectorMarkdown ==
  /\ parse.markdown # None
  /\ parse.rules = None
  /\ parse' = [parse EXCEPT !.rules = Some(parseRectorMarkdown(parse.markdown[1]))]
  /\ UNCHANGED <<cache, fetchPromise, state, lastError, loads, reqs, clears, search>>

\* deriveRuleSets(rules)
CallDeriveRuleSets ==
  /\ parse.rules # None
  /\ parse.ruleSets = None
  /\ parse' = [parse EXCEPT !.ruleSets = Some(deriveRuleSets(parse.rules[1]))]
  /\ UNCHANGED <<cache, fetchPromise, state, lastError, loads, reqs, clears, search>>

ParseNext ==
  \/ CallParseRectorMarkdown
  \/ CallDeriveRuleSets

ParseSpec == ParseInit /\ [][ParseNext]_vars


(***************************************************************************)
(* Properties of the cache, checked under Spec.                            *)
(***************************************************************************)
\* the requests that have been issued
Issued == {r \in DOMAIN reqs : reqs[r].pc # "idle"}

\* request r is issued in this step
Calls(r) == reqs[r].pc = "idle" /\ reqs'[r].pc # "idle"

\* what a caller reading member field gets from a settled load
ResultOf(load, field) ==
  IF load.st = "fulfilled" THEN Fulfilled(load.data[1][field])
  ELSE Rejected(load.error[1])

\* C1: Single-flight load. As long as clear() has not been called, at most
\* one load is outstanding, so the calls made while it is outstanding invoke
\* no fetch of their own: each of them is attached to the load an earlier
\* caller started, waits while it is pending, and holds that load's own
\* result (the member it asked for, or the load's error) once it has settled.
SingleFlightLoad ==
  clears = 0 =>
    /\ Cardinality(Outstanding) <= 1
    /\ \A i \in DOMAIN loads :
         Cardinality({r \in Issued : reqs[r].load = Some(i) /\ reqs[r].started}) = 1
    /\ \A r \in Issued :
         reqs[r].load # None =>
           LET i == reqs[r].load[1]
           IN  /\ i \in DOMAIN loads
               /\ \E q \in 1..r : reqs[q].started /\ reqs[q].load = Some(i)
               /\ IF loads[i].st = "pending"
                  THEN reqs[r].wait = Some(i) /\ reqs[r].got = None
                  ELSE /\ reqs[r].wait = None
                       /\ reqs[r].got = ResultOf(loads[i], reqs[r].field)

\* three callers, of both operations, were served by the one load of the run
SingleFlightWitness ==
  /\ clears = 0
  /\ Len(loads) = 1
  /\ loads[1].st = "fulfilled"
  /\ \A r \in 1..3 : reqs[r].load = Some(1) /\ reqs[r].got # None
  /\ \E r \in 1..3 : reqs[r].op = "getRuleSets" /\ ~reqs[r].started
  /\ \E r \in 1..3 : reqs[r].op = "getRules" /\ ~reqs[r].started

\* a reload fails while the cache holds a snapshot: what the claim promises
ServesSnapshot(i) ==
  /\ getStatus' = "error"
  /\ cache' = cache
  /\ \A r \in DOMAIN reqs :
       reqs[r].wait = Some(i) =>
         reqs'[r].got = Fulfilled(cache[1][reqs[r].field])

NoFallbackPropagation ==
  [][\A i \in DOMAIN loads : \A e \in FetchErrors :
       (~isLoaded /\ FetchReject(i, e)) =>
         /\ ~isLoaded'
         /\ loads'[i].st = "rejected"
         /\ \E r \in Issued : reqs[r].started /\ reqs[r].wait = Some(i)
         /\ \A r \in Issued :
              (reqs[r].wait = Some(i) \/ reqs[r].load = Some(i))
                => reqs'[r].got = Rejected(e)]_vars

\* three callers, of both operations, got the error of the one failed load
NoFallbackWitness ==
  /\ ~isLoaded
  /\ Len(loads) = 1
  /\ loads[1].st = "rejected"
  /\ getLastError # None
  /\ \A r \in 1..3 :
       reqs[r].load = Some(1) /\ reqs[r].got = Rejected(getLastError[1].message)
  /\ \E r \in 1..3 : reqs[r].op = "getRuleSets"
  /\ \E r \in 1..3 : reqs[r].op = "getRules"

\* C4: Memoization. A load that succeeds leaves a snapshot in the cache, and
\* in every step from a state with a snapshot, other than clear(), the
\* snapshot stays, no fetch is invoked, and a call that is made returns the
\* member it asked for from the snapshot held.
Memoization ==
  [][/\ (\E i \in DOMAIN loads : \E d \in DOMAIN Documents : FetchResolve(i, d))
          => isLoaded'
     /\ (isLoaded /\ clears' = clears) =>
          /\ isLoaded'
          /\ Len(loads') = Len(loads)
          /\ \A r \in DOMAIN reqs :
               Calls(r) =>
                 /\ reqs'[r].got = Fulfilled(cache[1][reqs'[r].field])
                 /\ reqs'[r].wait = None]_vars

\* after the only load of the run two more calls were answered from its data
MemoizationWitness ==
  /\ clears = 0
  /\ Len(loads) = 1
  /\ isLoaded
  /\ Len(cache[1].rules) > 0
  /\ reqs[1].started
  /\ reqs[2].op = "getRuleSets"
  /\ reqs[2].load = None
  /\ reqs[2].got = Fulfilled(cache[1].ruleSets)
  /\ reqs[3].op = "getRules"
  /\ reqs[3].load = None
  /\ reqs[3].got = Fulfilled(cache[1].rules)

\* C5: clear() resets the cache. A call of clear() leaves the status 'empty',
\* no snapshot and no promise in flight, and the first call of getRules() or
\* getRuleSets() made after a clear() starts a load of its own, invoking the
\* fetch once more.
ClearResets ==
  [][/\ clears' # clears =>
          /\ getStatus' = "empty"
          /\ ~isLoaded'
          /\ fetchPromise' = None
     /\ \A r \in DOMAIN reqs :
          (/\ Calls(r)
           /\ clears > 0
           /\ \A q \in Issued : reqs[q].epoch < clears)
            => /\ reqs'[r].started
               /\ Len(loads') = Len(loads) + 1]_vars

\* C6: A fresh load after a failure. In a state left by a load that failed
\* without fallback (the status is 'error' and the last error records no
\* fallback) no promise is in flight, and a call made then starts one load
\* and waits for it; when a load succeeds its callers get its data and the
\* status is 'loaded'.
FreshLoadAfterFailure ==
  [][/\ (getStatus = "error" /\ ~getLastError[1].hadFallback) =>
          /\ fetchPromise = None
          /\ \A r \in DOMAIN reqs :
               Calls(r) =>
                 /\ Len(loads') = Len(loads) + 1
                 /\ reqs'[r].started
                 /\ reqs'[r].wait = Some(Len(loads'))
                 /\ reqs'[r].got = None
     /\ \A i \in DOMAIN loads : \A d \in DOMAIN Documents :
          FetchResolve(i, d) =>
            /\ getStatus' = "loaded"
            /\ \A r \in Issued :
                 reqs[r].wait = Some(i) =>
                   reqs'[r].got = Fulfilled(LoadedData[d][reqs[r].field])]_vars


(***************************************************************************)
(* Properties of the tool handlers, checked under ToolSpec.                *)
(***************************************************************************)
\* the requests a handler has answered with an output
Answered ==
  {r \in DOMAIN reqs :
     reqs[r].pc = "done" /\ reqs[r].out # None /\ ~reqs[r].out[1].isError}

\* C7: Collapsed cache status. Every output of the list, filter and search
\* handlers reports the status the handler read after it had the rules as
\* "fresh" when that status was 'loaded', "error" when it was 'error', and
\* "stale" otherwise.
StatusCollapsed ==
  \A r \in Answered :
    reqs[r].out[1].output.cacheStatus =
      IF reqs[r].status = "loaded" THEN "fresh"
      ELSE IF reqs[r].status = "error" THEN "error"
      ELSE "stale"

\* a query of nothing but white space
Blank(query) == \A i \in DOMAIN query : IsSpace(query[i])

\* C8: EmptyQuery. A search request with a blank query is answered at once
\* with the error "Query string cannot be empty", and the step leaves the
\* snapshot, the promise in flight, the status, the last error and the loads
\* started as they were: the cache is not asked and no fetch is invoked.
EmptyQueryRejected ==
  [][\A r \in DOMAIN reqs : \A a \in SearchArgs :
       (Blank(a.query) /\ StartSearch(r, a)) =>
         /\ reqs'[r].pc = "done"
         /\ reqs'[r].out =
              Some([isError |-> TRUE,
                    text |-> <<"Error: ", "Query string cannot be empty">>])
         /\ UNCHANGED <<cache, fetchPromise, state, lastError, loads>>]_vars

\* a query of two spaces was refused while the cache was empty and idle
EmptyQueryWitness ==
  \E r \in DOMAIN reqs :
    /\ reqs[r].op = "search"
    /\ reqs[r].pc = "done"
    /\ reqs[r].args = Some([query |-> <<" ", " ">>, ruleSet |-> None])
    /\ reqs[r].out # None
    /\ reqs[r].out[1].isError
    /\ loads = <<>>
    /\ getStatus = "empty"
    /\ ~isLoaded


(***************************************************************************)
(* Properties of the query engine, checked under SearchSpec.               *)
(***************************************************************************)
\* the place of the rule with this id in the sequence searched
PlaceOf(id) == CHOOSE i \in DOMAIN search.rules : search.rules[i].id = id

LevelRank(level) ==
  IF level = "name" THEN 1 ELSE IF level = "description" THEN 2 ELSE 3

\* C9: Search relevance ordering. In every result of either search, a result
\* never comes before one of a level of higher priority (name, then
\* description, then tag), and two results of one level come in the order
\* their rules have in the sequence searched.
RelevanceOrdering ==
  search.results # None =>
    LET results == search.results[1]
    IN  \A i, j \in DOMAIN results :
          i < j =>
            /\ results[i].relevance \in {"name", "description", "tag"}
            /\ LevelRank(results[i].relevance) <= LevelRank(results[j].relevance)
            /\ results[i].relevance = results[j].relevance
                 => PlaceOf(results[i].id) < PlaceOf(results[j].id)

\* the tag match came first in the sequence searched and last in the result,
\* behind two name matches that kept their order
RelevanceOrderingWitness ==
  /\ search.engine = "tokens"
  /\ search.rules = <<RuleDeadStmt, RuleDeadType, RuleUnionTypes>>
  /\ search.results # None
  /\ Len(search.results[1]) = 3
  /\ search.results[1][1].id = RuleDeadType.id
  /\ search.results[1][1].relevance = "name"
  /\ search.results[1][2].id = RuleUnionTypes.id
  /\ search.results[1][2].relevance = "name"
  /\ search.results[1][3].id = RuleDeadStmt.id
  /\ search.results[1][3].relevance = "tag"

\* token is a substring of text, letter case apart
TokenIn(token, text) ==
  \E i \in 1..(Len(text) - Len(token) + 1) :
    toLowerCase(SubSeq(text, i, i + Len(token) - 1)) = toLowerCase(token)

AllTokensIn(tokens, text) == \A k \in DOMAIN tokens : TokenIn(tokens[k], text)

\* the level the claim gives a rule: None when it is excluded
LevelOf(rule, tokens) ==
  IF AllTokensIn(tokens, rule.name) THEN Some("name")
  ELSE IF AllTokensIn(tokens, rule.description) THEN Some("description")
  ELSE IF "tags" \in DOMAIN rule /\ AllTokensIn(tokens, join(rule.tags, <<" ">>))
       THEN Some("tag")
       ELSE None

\* C10: Search level assignment. For a query with at least one token, every
\* result is a candidate rule with a relevance added; a candidate all of
\* whose tokens are in its name, or in its description, or in its joined
\* tags is in the result exactly once, with the first of these levels as
\* its relevance; any other candidate is not in the result.
LevelAssignment ==
  (search.engine = "tokens" /\ tokenizeQuery(search.query) # <<>>) =>
    LET tokens     == tokenizeQuery(search.query)
        candidates == RulesToSearch(search.rules, search.ruleSetFilter)
        results    == search.results[1]
    IN  /\ \A i \in DOMAIN results :
             \E c \in DOMAIN candidates :
               /\ candidates[c].id = results[i].id
               /\ \A k \in DOMAIN candidates[c] : results[i][k] = candidates[c][k]
        /\ \A c \in DOMAIN candidates :
             LET found == {i \in DOMAIN results : results[i].id = candidates[c].id}
                 level == LevelOf(candidates[c], tokens)
             IN  IF level = None THEN found = {}
                 ELSE /\ Cardinality(found) = 1
                      /\ \A i \in found : results[i].relevance = level[1]

\* "dead code": one rule has the tokens split over name and description and
\* is left out, one matches by its description, one by its joined tags
LevelAssignmentWitness ==
  /\ search.engine = "tokens"
  /\ search.query = <<"d","e","a","d"," ","c","o","d","e">>
  /\ search.rules = <<RuleDeadType, RuleDeadStmt, RuleCleanup>>
  /\ search.ruleSetFilter = None
  /\ search.results # None
  /\ Len(search.results[1]) = 2
  /\ search.results[1][1].id = RuleCleanup.id
  /\ search.results[1][1].relevance = "description"
  /\ search.results[1][2].id = RuleDeadStmt.id
  /\ search.results[1][2].relevance = "tag"


(***************************************************************************)
(* Properties of filterRulesByRuleSet, checked under FilterSpec.           *)
(***************************************************************************)
\* the normalization as the claim words it: lower case, and one hyphen for
\* each run of white space and underscores
RECURSIVE Normalized(_)
Normalized(text) ==
  IF text = <<>> THEN <<>>
  ELSE LET c    == text[Len(text)]
           runs == c = "_" \/ IsSpace(c)
           init == SubSeq(text, 1, Len(text) - 1)
       IN  IF ~runs THEN Normalized(init) \o toLowerCase(<<c>>)
           ELSE IF init # <<>> /\ (init[Len(init)] = "_" \/ IsSpace(init[Len(init)]))
                THEN Normalized(init)
                ELSE Normalized(init) \o <<"-">>

\* the places of the rules that the filter has to keep
PlacesKept(rules, q) ==
  {i \in DOMAIN rules : Normalized(rules[i].ruleSet) = Normalized(q)}

\* xs holds the elements of rules at the places kept, in their order
IsSelection(xs, rules, places) ==
  /\ Len(xs) = Cardinality(places)
  /\ \A k \in DOMAIN xs :
       \E i \in places :
         /\ xs[k] = rules[i]
         /\ Cardinality({j \in places : j < i}) = k - 1

\* C11: Filter exactness. The result of the filter is, in input order, all
\* the rules and only the rules whose normalized ruleSet equals the
\* normalized query; and on the same rules the queries "Code Quality",
\* "code_quality" and "code-quality" give one and the same result.
FilterExactness ==
  search.engine = "filter" =>
    /\ IsSelection(search.results[1], search.rules,
                   PlacesKept(search.rules, search.query))
    /\ filterRulesByRuleSet(search.rules, QueryCodeQuality)
         = filterRulesByRuleSet(search.rules, QuerySnake)
    /\ filterRulesByRuleSet(search.rules, QuerySnake)
         = filterRulesByRuleSet(search.rules, QueryHyphen)

\* "code_quality" keeps the rules of "CODE _ quality" and "Code Quality", in
\* that order, and neither "Code" nor "Code Quality Extra"
FilterExactnessWitness ==
  /\ search.engine = "filter"
  /\ search.query = QuerySnake
  /\ search.rules = <<FilteredCode, FilteredRun, FilteredCodeQuality>>
  /\ search.results = Some(<<FilteredRun, FilteredCodeQuality>>)

\* the rules whose ruleSet is literally "PHP 8.0", in input order
LiteralPhp(rules) ==
  {i \in DOMAIN rules : rules[i].ruleSet = FilteredPhp.ruleSet}

\* C12 as stated: the query "php-8-0" returns the rules whose ruleSet is
\* literally "PHP 8.0".
PhpHyphensMatch ==
  (search.engine = "filter" /\ search.query = QueryPhpHyphens) =>
    IsSelection(search.results[1], search.rules, LiteralPhp(search.rules))

\* C12 amended: the query "php-8.0" returns the rules whose ruleSet is
\* literally "PHP 8.0" (both normalize to "php-8.0", the dot is kept), and
\* the query "php-8-0" returns none of them.
PhpDotMatches ==
  search.engine = "filter" =>
    /\ search.query = QueryPhpDot =>
         IsSelection(search.results[1], search.rules, LiteralPhp(search.rules))
    /\ search.query = QueryPhpHyphens =>
         \A k \in DOMAIN search.results[1] :
           search.results[1][k].ruleSet # FilteredPhp.ruleSet

\* "php-8.0" has found the rule of "PHP 8.0" between two others
PhpDotWitness ==
  /\ search.engine = "filter"
  /\ search.query = QueryPhpDot
  /\ search.rules = <<FilteredCodeQuality, FilteredPhp, FilteredCode>>
  /\ search.results = Some(<<FilteredPhp>>)

\* searchRules has returned
Searched == search.engine = "tokens" /\ search.results # None

\* C23: for every category string that is supplied, the empty string
\* included, searchRules(rules, q, c) is
\* searchRules(filterRulesByRuleSet(rules, c), q), so the normalized ruleSet
\* of every rule returned is the normalized c.
SearchOverFiltered ==
  (Searched /\ search.ruleSetFilter # None) =>
    /\ search.results[1]
         = searchRules(filterRulesByRuleSet(search.rules, search.ruleSetFilter[1]),
                       search.query, None)
    /\ \A i \in DOMAIN search.results[1] :
         normalizeRuleSetName(search.results[1][i].ruleSet)
           = normalizeRuleSetName(search.ruleSetFilter[1])


(***************************************************************************)
(* Properties of the parser, checked under ParseSpec.                      *)
(***************************************************************************)
\* parseRectorMarkdown has returned for a document
Parsed == parse.markdown # None /\ parse.rules # None

NonBlank(text) == \E i \in DOMAIN text : text[i] \notin {" ", "\t", "\n"}

\* The candidates of a document put together from lines of the pool, read
\* off the lines: a rule heading under a category heading opens a candidate,
\* the first line of text after it is its description.  cat is the category
\* the walk is in, cur the candidate that is open, out the candidates closed.
RECURSIVE Walk(_, _, _, _)
Walk(lines, cat, cur, out) ==
  IF lines = <<>> THEN out \o cur
  ELSE LET l == LinePool[Head(lines)]
       IN  CASE l.kind = "category" ->
                  Walk(Tail(lines), <<l.value>>, <<>>, out \o cur)
             [] l.kind = "rule" ->
                  Walk(Tail(lines), cat,
                       IF cat = <<>> THEN <<>>
                       ELSE << [name |-> l.value, description |-> <<>>,
                                ruleSet |-> cat[1]] >>,
                       out \o cur)
             [] l.kind = "text" /\ cur # <<>> /\ cur[1].description = <<>> ->
                  Walk(Tail(lines), cat,
                       << [cur[1] EXCEPT !.description = l.value] >>, out)
             [] OTHER -> Walk(Tail(lines), cat, cur, out)

Candidates == Walk(parse.shape[1].lines, <<>>, <<>>, <<>>)

Complete(c) == NonBlank(c.name) /\ NonBlank(c.description) /\ NonBlank(c.ruleSet)

\* C13: every rule parseRectorMarkdown returns has a name, a description and
\* a ruleSet that are non-empty after trimming; a candidate missing one of
\* them is left out, and the candidates that have all three are all
\* returned, in the order of the document.
ValidationInvariant ==
  Parsed =>
    LET rules == parse.rules[1]
    IN  /\ \A i \in DOMAIN rules :
             /\ NonBlank(rules[i].name)
             /\ NonBlank(rules[i].description)
             /\ NonBlank(rules[i].ruleSet)
        /\ parse.shape[1].kind = "lines" =>
             LET kept == SelectSeq(Candidates, Complete)
             IN  /\ Len(rules) = Len(kept)
                 /\ \A i \in DOMAIN kept :
                      /\ rules[i].name = kept[i].name
                      /\ rules[i].description = kept[i].description
                      /\ rules[i].ruleSet = kept[i].ruleSet

\* a document where a candidate without a description comes before a
\* complete one, parsed: only the complete one is returned
ValidationWitness ==
  /\ Parsed
  /\ parse.shape[1].kind = "lines"
  /\ Len(Candidates) = 2
  /\ ~Complete(Candidates[1])
  /\ Complete(Candidates[2])
  /\ Len(parse.rules[1]) = 1
  /\ parse.rules[1][1].name = Candidates[2].name

\* what the chunks of a document of the regular form say, chunk by chunk in
\* the order of the document
ChunksOf(sec) ==
  [c \in DOMAIN sec.chunks |->
     [ name        |-> ChunkPool[sec.chunks[c]].name,
       ruleSet     |-> CategoryPool[sec.category].ruleSet,
       description |-> ChunkPool[sec.chunks[c]].description,
       classPath   |-> ChunkPool[sec.chunks[c]].classPath ]]

ChunksInOrder ==
  Flatten([k \in DOMAIN parse.shape[1].sections |->
             ChunksOf(parse.shape[1].sections[k])])

\* C14: for a document of a title and category sections, whose rule chunks
\* have a description line and a class line, parseRectorMarkdown returns one
\* rule per chunk in the order of the document, with the trimmed rule heading
\* as name, the trimmed category heading as ruleSet, the first qualifying
\* line as description and the code span of the class line as classPath.
OneRulePerChunk ==
  (Parsed /\ parse.shape[1].kind = "regular") =>
    LET rules == parse.rules[1]
    IN  /\ Len(rules) = Len(ChunksInOrder)
        /\ \A i \in DOMAIN rules :
             /\ rules[i].name = ChunksInOrder[i].name
             /\ rules[i].ruleSet = ChunksInOrder[i].ruleSet
             /\ rules[i].description = ChunksInOrder[i].description
             /\ rules[i].classPath = Some(ChunksInOrder[i].classPath)

\* a document of two categories, the first with two chunks, parsed
OneRulePerChunkWitness ==
  /\ Parsed
  /\ parse.shape[1].kind = "regular"
  /\ Len(parse.shape[1].sections) = 2
  /\ parse.shape[1].sections[1].chunks = <<3, 1>>
  /\ parse.shape[1].sections[2].chunks = <<2>>
  /\ Len(parse.rules[1]) = 3
  /\ parse.rules[1][1].ruleSet # parse.rules[1][3].ruleSet

IsText(t) == DOMAIN t = 1..Len(t)

\* the fields of a Rule (src/models/rule.ts)
IsRule(r) ==
  /\ DOMAIN r = {"id", "name", "description", "ruleSet", "classPath",
                 "status", "configurable", "tags"}
  /\ IsText(r.id) /\ IsText(r.name) /\ IsText(r.description) /\ IsText(r.ruleSet)
  /\ r.classPath = None \/ (Len(r.classPath) = 1 /\ IsText(r.classPath[1]))
  /\ r.status = "stable"
  /\ r.configurable \in BOOLEAN
  /\ \A k \in DOMAIN r.tags : IsText(r.tags[k])

\* C15: for every text parseRectorMarkdown returns a sequence of Rules, and
\* for the empty text the empty sequence.
ParseTotal ==
  Parsed =>
    /\ IsText(parse.rules[1])
    /\ \A i \in DOMAIN parse.rules[1] : IsRule(parse.rules[1][i])
    /\ parse.markdown[1] = <<>> => parse.rules[1] = <<>>

\* the empty text, parsed
ParseTotalWitness ==
  /\ Parsed
  /\ parse.markdown[1] = <<>>
  /\ parse.rules[1] = <<>>

\* deriveRuleSets has returned for a collection of rules
Derived == parse.rules # None /\ parse.ruleSets # None

RECURSIVE SumOfCounts(_)
SumOfCounts(ruleSets) ==
  IF ruleSets = <<>> THEN 0
  ELSE Head(ruleSets).ruleCount + SumOfCounts(Tail(ruleSets))

Sharing(rules, value) == {j \in DOMAIN rules : rules[j].ruleSet = value}

\* C16: for every rule of the collection deriveRuleSets returns exactly one
\* RuleSet named as the rule's ruleSet, counting the rules that share it;
\* it returns no RuleSet for a value no rule has, so every count is at least
\* 1 and the counts add up to the number of rules.
DerivationConsistency ==
  Derived =>
    LET rules    == parse.rules[1]
        ruleSets == parse.ruleSets[1]
    IN  /\ \A i \in DOMAIN rules :
             LET named == {k \in DOMAIN ruleSets :
                             ruleSets[k].name = rules[i].ruleSet}
             IN  /\ Cardinality(named) = 1
                 /\ \A k \in named :
                      ruleSets[k].ruleCount
                        = Cardinality(Sharing(rules, rules[i].ruleSet))
        /\ \A k \in DOMAIN ruleSets :
             /\ Sharing(rules, ruleSets[k].name) # {}
             /\ ruleSets[k].ruleCount >= 1
        /\ SumOfCounts(ruleSets) = Len(rules)

\* three rules, two of them of one ruleSet, derived
DerivationWitness ==
  /\ Derived
  /\ Len(parse.rules[1]) = 3
  /\ parse.rules[1][1].ruleSet = parse.rules[1][3].ruleSet
  /\ parse.rules[1][1].ruleSet # parse.rules[1][2].ruleSet
  /\ Len(parse.ruleSets[1]) = 2
  /\ \E k \in 1..2 : parse.ruleSets[1][k].ruleCount = 2

\* C17: no two rules returned by one call of parseRectorMarkdown have the
\* same id.
UniqueIds ==
  Parsed =>
    \A i, j \in DOMAIN parse.rules[1] :
      i # j => parse.rules[1][i].id # parse.rules[1][j].id

\* the class lines of a chunk that are scanned: those before the first fence
ScannedClasses ==
  LET lines  == parse.shape[1].lines
      fences == {i \in DOMAIN lines : lines[i] = 0}
      stop   == IF fences = {} THEN Len(lines) + 1
                ELSE CHOOSE i \in fences : \A j \in fences : i <= j
  IN  SubSeq(lines, 1, stop - 1)

SeveralClassLines ==
  Parsed /\ parse.shape[1].kind = "classes" /\ Len(ScannedClasses) >= 2

\* C24 as stated: when a chunk has more than one class line before scanning
\* stops, the classPath of its rule is the code span of the first of them.
FirstClassLine ==
  SeveralClassLines =>
    /\ Len(parse.rules[1]) = 1
    /\ parse.rules[1][1].classPath = Some(ClassSpans[ScannedClasses[1]])

\* C24 amended: when a chunk has more than one class line before scanning
\* stops, the classPath of its rule is the code span of the last of them.
LastClassLine ==
  SeveralClassLines =>
    /\ Len(parse.rules[1]) = 1
    /\ parse.rules[1][1].classPath
         = Some(ClassSpans[ScannedClasses[Len(ScannedClasses)]])

\* a chunk with the class lines of A\B and then C\D, and a third after a
\* fence, parsed: the classPath is C\D
LastClassLineWitness ==
  /\ SeveralClassLines
  /\ parse.shape[1].lines = <<1, 2, 0>>
  /\ parse.rules[1][1].classPath = Some(ClassSpans[2])


\* the rules in another order: perm is a permutation of their places
Permuted(rules, perm) == [i \in DOMAIN rules |-> rules[perm[i]]]

PermutationsOf(n) ==
  {f \in [1..n -> 1..n] : \A i, j \in 1..n : i # j => f[i] # f[j]}

\* C25: deriveRuleSets returns the same sequence of RuleSets for every order
\* of the rules it is given.
DeriveOrderIndependent ==
  (Derived /\ parse.markdown = None) =>
    \A perm \in PermutationsOf(Len(parse.rules[1])) :
      deriveRuleSets(Permuted(parse.rules[1], perm)) = parse.ruleSets[1]


(***************************************************************************)
(* Properties of the cache, checked under LiveSpec.                        *)
(***************************************************************************)
\* C18: every call of getRules() or getRuleSets() returns or fails in the
\* end, whatever the interleaving with other calls and with clear().
EveryCallSettles ==
  \A r \in 1..MaxReqs : (reqs[r].pc # "idle") ~> (reqs[r].got # None)

\* a call attached to load 1, clear(), a call that started load 2, and then
\* load 1 settling while load 2 is outstanding: the first call has its answer
EveryCallSettlesWitness ==
  /\ clears = 1
  /\ 2 \in Outstanding
  /\ fetchPromise = None
  /\ \E r, q \in 1..MaxReqs :
       /\ reqs[r].load = Some(1) /\ reqs[r].epoch = 0 /\ reqs[r].got # None
       /\ reqs[q].load = Some(2) /\ reqs[q].epoch = 1 /\ reqs[q].started

(***************************************************************************)
(* Further properties of the cache, checked under Spec.                    *)
(***************************************************************************)
\* C19: in every reachable state at most one load is in flight.
AtMostOneLoad == Cardinality(Outstanding) <= 1

\* C20: while a load is outstanding getStatus() returns 'loading'.
LoadingWhileOutstanding == Outstanding # {} => getStatus = "loading"

\* load i was started by a call made before the last clear()
StartedBeforeClear(i) ==
  \E r \in Issued :
    reqs[r].started /\ reqs[r].load = Some(i) /\ reqs[r].epoch < clears

\* C27: a load started before a clear() does not populate the cache after
\* it: when such a load settles, isLoaded() and the status stay as they
\* were (false and not 'loaded' or 'error' until a load started after the
\* clear() settles), and the snapshot held, if a later load has stored one,
\* is not replaced.
StaleLoadIgnored ==
  [][\A i \in DOMAIN loads :
       (StartedBeforeClear(i) /\ Settle(i)) =>
         /\ isLoaded' = isLoaded
         /\ getStatus' = getStatus
         /\ cache' = cache]_vars

\* the requests awaiting load i
Waiters(i) == {r \in DOMAIN reqs : reqs[r].wait = Some(i)}

\* C22: Error bookkeeping. A load that succeeds leaves no last error and the
\* status 'loaded'; a load that fails records a last error with the message
\* of the failure, whose hadFallback is true exactly when the callers of the
\* load were served the rules held, and false exactly when they got the
\* error; and whenever the status is 'error' a last error is present.
ErrorBookkeeping ==
  /\ [](getStatus = "error" => getLastError # None)
  /\ [][/\ \A i \in DOMAIN loads : \A d \in DOMAIN Documents :
             FetchResolve(i, d) => getLastError' = None /\ getStatus' = "loaded"
        /\ \A i \in DOMAIN loads : \A e \in FetchErrors :
             FetchReject(i, e) =>
               /\ getLastError' # None
               /\ getLastError'[1].message = e
               /\ Waiters(i) # {}
               /\ getLastError'[1].hadFallback
                    <=> \A r \in Waiters(i) :
                          reqs'[r].got = Fulfilled(state[reqs[r].field])
               /\ ~getLastError'[1].hadFallback
                    <=> \A r \in Waiters(i) : reqs'[r].got = Rejected(e)]_vars

\* a load failed while rules were held: the error is recorded with
\* hadFallback, and the caller of the load has the rules held
ErrorBookkeepingWitness ==
  /\ getStatus = "error"
  /\ getLastError # None
  /\ getLastError[1].hadFallback
  /\ \E r \in Issued :
       /\ reqs[r].started
       /\ reqs[r].load # None
       /\ loads[reqs[r].load[1]].st = "fulfilled"
       /\ reqs[r].got = Fulfilled(state[reqs[r].field])
       /\ reqs[r].op = "getRuleSets"


\* C29: the snapshot served (this.cache) and the state recorded
\* (this.state) agree: status 'loaded' implies isLoaded(); isLoaded() implies
\* status 'loaded' or 'error'; and while isLoaded() the rules and rule sets
\* served are those of the state, the rule sets being derived from the rules.
RepresentationsAgree ==
  /\ getStatus = "loaded" => isLoaded
  /\ isLoaded => getStatus \in {"loaded", "error"}
  /\ isLoaded =>
       /\ cache[1].rules = state.rules
       /\ cache[1].ruleSets = state.ruleSets
       /\ state.ruleSets = deriveRuleSets(state.rules)

\* a failed load fell back on the rules held: the status is 'error', the
\* snapshot served is that of the state, and a later call was served from it
RepresentationsWitness ==
  /\ isLoaded
  /\ getStatus = "error"
  /\ Len(state.ruleSets) > 0
  /\ cache[1].ruleSets = state.ruleSets
  /\ \E r \in Issued :
       /\ reqs[r].op = "getRuleSets"
       /\ reqs[r].load = None
       /\ reqs[r].epoch = 1
       /\ reqs[r].got = Fulfilled(state.ruleSets)


\* C30: clear() leaves the last error as it was, so an error recorded by a
\* failed load can be read while the status is 'empty'; a last error is
\* removed only by a load that succeeds.
ClearKeepsLastError ==
  [][/\ clears' # clears =>
          /\ getLastError' = getLastError
          /\ getStatus' = "empty"
     /\ (getLastError # None /\ getLastError' = None) =>
          \E i \in DOMAIN loads : \E d \in DOMAIN Documents : FetchResolve(i, d)]_vars

\* a load failed and clear() was called: the status is 'empty' and the error
\* of the load is still the last error
ClearKeepsLastErrorWitness ==
  /\ clears = 1
  /\ getStatus = "empty"
  /\ Outstanding = {}
  /\ Len(loads) = 1
  /\ loads[1].st = "rejected"
  /\ getLastError # None
  /\ getLastError[1].message = loads[1].error[1]


(***************************************************************************)
(* Further properties of the tool handlers, checked under ToolSpec.        *)
(***************************************************************************)
\* C21: in every successful response of the list handler the rule sets are
\* those derived from the rules of the same response.
NoTornRead ==
  \A r \in Answered :
    reqs[r].op = "list" =>
      reqs[r].out[1].output.ruleSets = deriveRuleSets(reqs[r].out[1].output.rules)

\* C26: every RuleSet handed to a caller is named by the ruleSet value of a
\* rule it summarizes: each RuleSet of a snapshot, derived from its rules,
\* and the RuleSet of a filter response, which is absent exactly when no rule
\* was kept and otherwise counts the rules kept.
RuleSetNamesARule ==
  /\ isLoaded =>
       \A k \in DOMAIN cache[1].ruleSets :
         \E i \in DOMAIN cache[1].rules :
           cache[1].rules[i].ruleSet = cache[1].ruleSets[k].name
  /\ \A r \in Answered :
       reqs[r].op = "filter" =>
         LET output == reqs[r].out[1].output
         IN  /\ output.ruleSet = None <=> Len(output.rules) = 0
             /\ output.ruleSet # None =>
                  /\ output.ruleSet[1].ruleCount = Len(output.rules)
                  /\ \E i \in DOMAIN output.rules :
                       output.rules[i].ruleSet = output.ruleSet[1].name

(***************************************************************************)
(* Properties of the cache, checked under QuietSpec.                       *)
(***************************************************************************)
\* request r gets a successful result in this step
Served(r) ==
  reqs[r].got = None /\ reqs'[r].got # None /\ reqs'[r].got[1].ok

\* C28: when clear() is never called while a load is in flight, every load
\* that fails records hadFallback = false and fails its callers, and no
\* call is served a successful result while the status is 'error'.
FallbackNeedsClear ==
  [][/\ \A i \in DOMAIN loads : \A e \in FetchErrors :
          FetchReject(i, e) =>
            /\ getLastError' # None
            /\ ~getLastError'[1].hadFallback
            /\ Waiters(i) # {}
            /\ \A r \in Waiters(i) : reqs'[r].got = Rejected(e)
     /\ \A r \in DOMAIN reqs : Served(r) => getStatus' # "error"]_vars

\* a load succeeded, clear() was called with no load in flight, and the load
\* started afterwards failed: no fallback, and its caller has the error
FallbackNeedsClearWitness ==
  /\ clears = 1
  /\ Len(loads) = 2
  /\ loads[1].st = "fulfilled"
  /\ Len(loads[1].data[1].rules) > 0
  /\ loads[2].st = "rejected"
  /\ getStatus = "error"
  /\ getLastError # None
  /\ ~getLastError[1].hadFallback
  /\ \E r \in Issued :
       /\ reqs[r].started
       /\ reqs[r].load = Some(2)
       /\ reqs[r].got = Rejected(getLastError[1].message)

====
